---- MODULE Spec2Model ----
(***************************************************************************)
(* Model of extract.py: the batch loop over the replay files, the step     *)
(* loop over the decoder's snapshots, the flattening of one in-game        *)
(* snapshot into a row (players, nana, projectile slots, nana pre-seeding,  *)
(* encode_row), the whole-replay table, the two perspectives and the two   *)
(* parquet writes.                                                         *)
(*                                                                         *)
(* Representation.  A Python value is a tagged pair <<tag, payload>>; a    *)
(* column name is the sequence of the pieces the f-strings concatenate     *)
(* (f"{pref}nana_" + "character" is <<"p1_", "nana_", "character">>), so   *)
(* that str.startswith(pref) is a test of the first piece; a row (a dict)  *)
(* is a function from column names to values.                              *)
(***************************************************************************)
EXTENDS Integers, Sequences, FiniteSets, TLC

\* ------------------------------------------------------------------ bounds
MaxFiles  == 2   \* directory entries in the batch
MaxSteps  == 2   \* snapshots the decoder yields for one replay
ExtraProj == 1   \* projectiles beyond the slot cap in the fullest snapshot

\* --------------------------------------------------------------- constants
MAX_PROJ == 8

\* ------------------------------------------------------------------ values
None == "None"            \* Python's None where a label or a name is expected

IntV(n)   == <<"int", n>>
FloatV(n) == <<"float", n>>
BoolV(b)  == <<"bool", b>>
StrV(s)   == <<"str", s>>
NaN       == <<"nan", 0>>         \* float("nan")
NoneV     == <<"none", 0>>        \* None stored in a row

\* enum.name of a decoded enum member, kept as the label itself
LabelV(l) == IF l = None THEN NoneV ELSE StrV(l)

Digit(j) == <<"0", "1", "2", "3", "4", "5", "6", "7", "8", "9">>[j + 1]

\* ------------------------------------------------- static category tables
STAGE_MAP     == ("BATTLEFIELD" :> 0) @@ ("FINAL_DESTINATION" :> 1)
CHARACTER_MAP == ("FOX" :> 0) @@ ("MARTH" :> 1) @@ ("POPO" :> 2) @@ ("NANA" :> 3)
ACTION_MAP    == ("STANDING" :> 0) @@ ("DASHING" :> 1)
PROJECTILE_TYPE_MAP == ("FOX_LASER" :> 0) @@ ("TURNIP" :> 1)

\* dict.get(key, default) on a table keyed by strings
MapGet(map, v, default) ==
  IF v[1] = "str" /\ v[2] \in DOMAIN map THEN IntV(map[v[2]]) ELSE IntV(default)

\* row.get(key): None when the key is absent
RowGet(row, key) == IF key \in DOMAIN row THEN row[key] ELSE NoneV

EmptyRow == [k \in {} |-> NoneV]    \* {}

\* row.update(new) and row.setdefault over a family of keys
Update(row, new)     == new @@ row
SetDefault(row, dfl) == row @@ dfl

\* ------------------------------------------------------------ column names
BUTTONS ==
  {"BUTTON_A", "BUTTON_B", "BUTTON_X", "BUTTON_Y", "BUTTON_Z",
   "BUTTON_L", "BUTTON_R", "BUTTON_START",
   "BUTTON_D_UP", "BUTTON_D_DOWN", "BUTTON_D_LEFT", "BUTTON_D_RIGHT"}

STICKS == {"main_x", "main_y", "c_x", "c_y", "l_shldr", "r_shldr"}

SCALAR_INTS ==
  {"costume", "hitlag_left", "hitstun_left", "invuln_left", "jumps_left", "stock"}

SCALAR_BOOLS ==
  {"facing", "invulnerable", "moonwalkwarning", "off_stage", "on_ground"}

SCALAR_FLOATS ==
  {"ecb_bottom_x", "ecb_bottom_y", "ecb_left_x", "ecb_left_y",
   "ecb_right_x", "ecb_right_y", "ecb_top_x", "ecb_top_y",
   "percent", "pos_x", "pos_y", "shield_strength",
   "speed_air_x_self", "speed_ground_x_self",
   "speed_x_attack", "speed_y_attack", "speed_y_self"}

NANA_BUTTONS ==
  {"BUTTON_A", "BUTTON_B", "BUTTON_X", "BUTTON_Y", "BUTTON_Z",
   "BUTTON_L", "BUTTON_R", "BUTTON_START",
   "BUTTON_D_UP", "BUTTON_D_DOWN", "BUTTON_D_LEFT", "BUTTON_D_RIGHT"}

NANA_BOOL_FLAGS ==
  {"facing", "invulnerable", "moonwalkwarning", "off_stage", "on_ground"}

NANA_STRINGS == {"character", "action"}

NANA_INTS ==
  {"action_frame", "hitlag_left", "hitstun_left",
   "invuln_left", "jumps_left", "stock"}

NANA_FLOATS ==
  {"main_x", "main_y", "c_x", "c_y",
   "ecb_bottom_x", "ecb_bottom_y", "ecb_left_x", "ecb_left_y",
   "ecb_right_x", "ecb_right_y", "ecb_top_x", "ecb_top_y",
   "percent", "pos_x", "pos_y", "shield_strength",
   "speed_air_x_self", "speed_ground_x_self",
   "speed_x_attack", "speed_y_attack", "speed_y_self"}

PROJ_INTS   == {"frame", "owner", "subtype"}
PROJ_FLOATS == {"pos_x", "pos_y", "speed_x", "speed_y"}
PROJ_FIELDS == PROJ_INTS \cup PROJ_FLOATS \cup {"type"}

\* f"{pref}{field}" where pref is a sequence of pieces
Key(pref, field) == pref \o <<field>>

PlayerPref(idx) == <<"p" \o Digit(idx + 1) \o "_">>       \* f"p{idx+1}_"
NanaPref(pref)  == pref \o <<"nana_">>                    \* f"{pref}nana_"
ProjPref(j)     == <<"proj" \o Digit(j) \o "_">>          \* f"proj{j}_"

\* a dict with the keys pref+f for f in fields, each holding val
Fill(pref, fields, val) == [k \in {Key(pref, f) : f \in fields} |-> val]

\* ---------------------------------------------------------------- flatten
\* The columns shared by a player and its nana: identity, buttons, sticks
\* and shoulders, misc scalars.  e is the decoded state; every integer
\* attribute of e is e.val, every float float(e.val), every flag e.flag.
StateCols(pref, e) ==
  (Key(pref, "character") :> LabelV(e.character))
  @@ (Key(pref, "action") :> LabelV(e.action))
  @@ (Key(pref, "action_frame") :> IntV(e.val))
  @@ Fill(pref, {"btn_" \o b : b \in BUTTONS}, BoolV(e.flag))
  @@ Fill(pref, STICKS, FloatV(e.val))
  @@ Fill(pref, SCALAR_INTS, IntV(e.val))
  @@ Fill(pref, SCALAR_FLOATS, FloatV(e.val))
  @@ Fill(pref, SCALAR_BOOLS, BoolV(e.flag))

\* nana = ps.nana; if nana: row.update(...)
NanaCols(pref, ps) ==
  IF ps.nana # <<>> THEN StateCols(NanaPref(pref), ps.nana[1]) ELSE EmptyRow

\* one iteration of "for idx, (port, ps) in enumerate(gs.players.items())"
PlayerCols(idx, port, ps) ==
  LET pref == PlayerPref(idx)
  IN  Update(Update((Key(pref, "port") :> IntV(port)), StateCols(pref, ps)),
             NanaCols(pref, ps))

RECURSIVE PlayersLoop(_, _, _)
PlayersLoop(row, players, idx) ==
  IF idx >= Len(players) THEN row
  ELSE PlayersLoop(
         Update(row, PlayerCols(idx, players[idx + 1].port, players[idx + 1].ps)),
         players, idx + 1)

ProjPlaceholder(j) ==
  Fill(ProjPref(j), PROJ_INTS, IntV(-1))
  @@ Fill(ProjPref(j), PROJ_FLOATS, NaN)
  @@ (Key(ProjPref(j), "type") :> StrV(""))

ProjReal(j, proj) ==
  (Key(ProjPref(j), "frame") :> IntV(proj.frame))
  @@ (Key(ProjPref(j), "owner") :> IntV(proj.owner))
  @@ Fill(ProjPref(j), {"pos_x", "pos_y"}, FloatV(proj.pos))
  @@ Fill(ProjPref(j), {"speed_x", "speed_y"}, FloatV(proj.speed))
  @@ (Key(ProjPref(j), "subtype") :> IntV(proj.subtype))
  @@ (Key(ProjPref(j), "type") :> LabelV(proj.type))

\* the slot loop with the bound test off by one: the last projectile is lost
ProjSlot_OffByOne(row, gs, j) ==
  LET seeded == Update(row, ProjPlaceholder(j))
  IN  IF j + 1 < Len(gs.projectiles)
      THEN Update(seeded, ProjReal(j, gs.projectiles[j + 1]))
      ELSE seeded

\* one iteration of "for j in range(MAX_PROJ)"
ProjSlot(row, gs, j) ==
  LET seeded == Update(row, ProjPlaceholder(j))
  IN  IF j < Len(gs.projectiles)
      THEN Update(seeded, ProjReal(j, gs.projectiles[j + 1]))
      ELSE seeded

RECURSIVE ProjLoop(_, _, _)
ProjLoop(row, gs, j) ==
  IF j >= MAX_PROJ THEN row ELSE ProjLoop(ProjSlot(row, gs, j), gs, j + 1)

\* "for pref in (p1_nana_, p2_nana_): row.setdefault(...)"
SeedNana(row, pref) ==
  SetDefault(row,
    Fill(pref, {"btn_" \o b : b \in NANA_BUTTONS}, BoolV(FALSE))
    @@ Fill(pref, NANA_BOOL_FLAGS, BoolV(FALSE))
    @@ Fill(pref, NANA_STRINGS, StrV(""))
    @@ Fill(pref, NANA_INTS, IntV(-1))
    @@ Fill(pref, NANA_FLOATS, NaN))

PreSeed(row) == SeedNana(SeedNana(row, <<"p1_", "nana_">>), <<"p2_", "nana_">>)

FrameCols(gs) ==
  (<<"frame">> :> IntV(gs.frame))
  @@ (<<"distance">> :> FloatV(gs.distance))
  @@ (<<"stage">> :> LabelV(gs.stage))
  @@ (<<"startAt">> :> StrV(gs.startAt))

\* step 2 of encode_row, for one prefix: four assignments to four different
\* keys, each reading the key it writes
EncodePrefix(row, pref) ==
  Update(row,
    Fill(pref, {"character"}, MapGet(CHARACTER_MAP, RowGet(row, Key(pref, "character")), -1))
    @@ Fill(pref, {"action"}, MapGet(ACTION_MAP, RowGet(row, Key(pref, "action")), -1))
    @@ Fill(NanaPref(pref), {"character"},
            MapGet(CHARACTER_MAP, RowGet(row, Key(NanaPref(pref), "character")), -1))
    @@ Fill(NanaPref(pref), {"action"},
            MapGet(ACTION_MAP, RowGet(row, Key(NanaPref(pref), "action")), -1)))

\* step 3 of encode_row: "for j in range(MAX_PROJ)", each j its own key
EncodeProj(row) ==
  Update(row,
    [k \in {Key(ProjPref(j), "type") : j \in 0..(MAX_PROJ - 1)} |->
       MapGet(PROJECTILE_TYPE_MAP, RowGet(row, k), -1)])

EncodeStage(row) ==
  Update(row, <<"stage">> :> MapGet(STAGE_MAP, RowGet(row, <<"stage">>), -1))

encode_row(row) ==
  EncodeProj(EncodePrefix(EncodePrefix(EncodeStage(row), <<"p1_">>), <<"p2_">>))

\* the body of the step loop for one in-game snapshot, up to rows.append
Flatten(gs) ==
  encode_row(PreSeed(ProjLoop(PlayersLoop(FrameCols(gs), gs.players, 0), gs, 0)))

\* the attribute accesses that raise AttributeError: x.name with x None
NameRaises(e) == e.character = None \/ e.action = None

PlayerRaises(ps) ==
  NameRaises(ps) \/ (ps.nana # <<>> /\ NameRaises(ps.nana[1]))

ProjRaises(gs) ==
  \E j \in 0..(MAX_PROJ - 1) :
    j < Len(gs.projectiles) /\ gs.projectiles[j + 1].type = None

FlattenRaises(gs) ==
  (\E i \in 1..Len(gs.players) : PlayerRaises(gs.players[i].ps)) \/ ProjRaises(gs)

\* ------------------------------------------------------------------ tables
\* pd.DataFrame(rows): the columns are the union of the rows' keys, a key a
\* row lacks is NaN in that row
DataFrame(rs) ==
  LET cols == UNION {DOMAIN rs[i] : i \in 1..Len(rs)}
  IN  [columns |-> cols,
       data    |-> [i \in 1..Len(rs) |->
                     [c \in cols |-> IF c \in DOMAIN rs[i] THEN rs[i][c] ELSE NaN]]]

\* the dtype pandas infers for a column
Dtype(df, c) ==
  LET tags == {df.data[i][c][1] : i \in 1..Len(df.data)}
  IN  IF tags \subseteq {"bool"} THEN "bool"
      ELSE IF tags \subseteq {"int"} THEN "int64"
      ELSE IF tags \subseteq {"int", "float", "nan"} THEN "float64"
      ELSE "object"

\* astype("float32") of one value of a float64 column
Float32(v) == IF v[1] = "nan" THEN <<"nan32", 0>> ELSE <<"float32", v[2]>>

\* df.select_dtypes(include=[float64]).columns
Float64Cols(df) == {c \in df.columns : Dtype(df, c) = "float64"}

\* "for col in float64_cols: df[col] = df[col].astype(float32)"
CastFloat32(df) ==
  LET float64_cols == Float64Cols(df)
  IN  [df EXCEPT !.data =
         [i \in 1..Len(df.data) |->
           [c \in df.columns |->
             IF c \in float64_cols THEN Float32(df.data[i][c]) ELSE df.data[i][c]]]]

StartsWith(col, pref) == Len(col) > 0 /\ col[1] = pref

\* the rename map without its elif branch: the opponent's columns keep their names
Rename_SelfOnly(col, self_pref, opp_pref) ==
  IF StartsWith(col, self_pref) THEN <<"self_">> \o Tail(col) ELSE col

\* the rename map of perspective(), applied to one column name
Rename(col, self_pref, opp_pref) ==
  IF StartsWith(col, self_pref) THEN <<"self_">> \o Tail(col)
  ELSE IF StartsWith(col, opp_pref) THEN <<"opp_">> \o Tail(col)
  ELSE col

\* the column of df that rename turns into n: the one with the prefix put
\* back when that is a column of df that becomes n, any such column otherwise
Renamed(df, n, self_pref, opp_pref) ==
  LET guess == IF StartsWith(n, "self_") THEN <<self_pref>> \o Tail(n)
               ELSE IF StartsWith(n, "opp_") THEN <<opp_pref>> \o Tail(n)
               ELSE n
  IN  IF guess \in df.columns /\ Rename(guess, self_pref, opp_pref) = n
      THEN guess
      ELSE CHOOSE c \in df.columns : Rename(c, self_pref, opp_pref) = n

\* df.rename(columns=rename)
perspective(df, self_pref, opp_pref) ==
  LET new == {Rename(c, self_pref, opp_pref) : c \in df.columns}
  IN  [columns |-> new,
       data    |-> [i \in 1..Len(df.data) |->
                     [n \in new |-> df.data[i][Renamed(df, n, self_pref, opp_pref)]]]]

\* ---------------------------------------------------------------- file names
\* slug(s) on the strings of this model: NFKD/ascii, lower(), drop what is
\* neither a word character, a space nor a hyphen, then runs of hyphens and
\* spaces become "_"
SlugTable ==
  ("FINAL_DESTINATION" :> "final_destination")
  @@ ("BATTLEFIELD" :> "battlefield")
  @@ ("POKEMON_STADIUM" :> "pokemon_stadium")
  @@ ("unknown_stage" :> "unknown_stage")
  @@ ("FOX" :> "fox") @@ ("MARTH" :> "marth") @@ ("POPO" :> "popo")
  @@ ("UNKNOWN_CHARACTER" :> "unknown_character")
  @@ ("2023-05-02T03:39:34Z" :> "2023_05_02t033934z")

slug(s) == IF s = None \/ s = "" THEN "unknown" ELSE SlugTable[s]

\* uuid.uuid4().hex[:8]
UUIDS == {"0a1b2c3d", "9f8e7d6c"}

BaseName(stage, p1, p2, ts, uniq) ==
  slug(stage) \o "_" \o slug(p1) \o "_vs_" \o slug(p2) \o "_" \o slug(ts) \o "_" \o uniq

P1Path(b) == b \o "-p1.parquet"
P2Path(b) == b \o "-p2-parquet"

\* file.lower().endswith(".slp") on the directory entries of this model
EXTS == {".SLP", ".txt"}
Lower(ext) == IF ext = ".SLP" THEN ".slp" ELSE ext
IsSlp(file) == Lower(file) = ".slp"

\* ------------------------------------------------- the decoder's snapshots
IN_GAME == "IN_GAME"

NanaState(port) ==
  [character |-> "NANA", action |-> "STANDING", val |-> 10 + port, flag |-> TRUE]

Player(port, ch, withNana) ==
  [port |-> port,
   ps   |-> [character |-> ch,
             action    |-> IF port = 1 THEN "STANDING" ELSE "DASHING",
             val       |-> port,
             flag      |-> (port = 1),
             nana      |-> IF withNana THEN <<NanaState(port)>> ELSE <<>>]]

ProjTypes == <<"FOX_LASER", "UNKNOWN_PROJECTILE", "TURNIP">>

Projectile(j) ==
  [frame |-> 100 + j, owner |-> 1 + (j % 2), pos |-> 20 + j, speed |-> 3 + j,
   subtype |-> j, type |-> ProjTypes[(j % 3) + 1]]

Projectiles(n) == [j \in 1..n |-> Projectile(j - 1)]

Snapshot(menu, stage, players, nproj) ==
  [menu_state |-> menu, frame |-> 0, distance |-> 5, stage |-> stage,
   startAt |-> "2023-05-02T03:39:34Z", players |-> players,
   projectiles |-> Projectiles(nproj)]

FoxMarth == <<Player(1, "FOX", FALSE), Player(2, "MARTH", FALSE)>>

Snapshots ==
  {Snapshot(m, "FINAL_DESTINATION", FoxMarth, 0) : m \in {IN_GAME, "CHARACTER_SELECT"}}
  \cup {Snapshot(IN_GAME, None, FoxMarth, 0)}
  \cup {Snapshot(IN_GAME, "POKEMON_STADIUM",
                 <<Player(1, "UNKNOWN_CHARACTER", FALSE), Player(2, "MARTH", FALSE)>>, 0)}
  \cup {Snapshot(IN_GAME, "BATTLEFIELD",
                 <<Player(1, None, FALSE), Player(2, "MARTH", FALSE)>>, 0)}
  \cup {Snapshot(IN_GAME, "BATTLEFIELD",
                 <<Player(1, "POPO", TRUE), Player(2, "MARTH", FALSE)>>, MAX_PROJ \div 2),
        Snapshot(IN_GAME, "BATTLEFIELD",
                 <<Player(1, "FOX", FALSE), Player(2, "POPO", TRUE)>>, 0),
        Snapshot(IN_GAME, "BATTLEFIELD",
                 <<Player(1, "POPO", TRUE), Player(2, "POPO", TRUE)>>, 0)}
  \cup {Snapshot(IN_GAME, "FINAL_DESTINATION",
                 <<Player(2, "MARTH", FALSE), Player(1, "FOX", FALSE)>>, 0)}
  \cup {Snapshot(IN_GAME, "FINAL_DESTINATION", FoxMarth, np) :
          np \in {MAX_PROJ, MAX_PROJ + ExtraProj}}

\* ----------------------------------------------------------------- program
VARIABLES
  files,          \* os.listdir(SLP_DIR)
  fi,             \* position of the for loop in files
  pc,             \* "loop" | "step" | "done" | "crashed"
  failure,        \* what raised: "none" | "decoder" | "flatten"
  yielded,        \* what console.step() has returned for this replay
  rows, first_stage, first_p1_char, first_p2_char, timestamp,
  df_combined, df_p1, df_p2, base,
  wrote,          \* the to_parquet calls of the replay just finished
  nwritten        \* per directory entry, the tables written for it

vars == <<files, fi, pc, failure, yielded, rows, first_stage, first_p1_char,
          first_p2_char, timestamp, df_combined, df_p1, df_p2, base, wrote,
          nwritten>>

replayVars == <<rows, first_stage, first_p1_char, first_p2_char, timestamp>>
outVars    == <<df_combined, df_p1, df_p2, base, wrote, nwritten>>

NoDF == DataFrame(<<>>)

Init ==
  /\ files \in UNION {[1..n -> EXTS] : n \in 1..MaxFiles}
  /\ fi = 1
  /\ pc = "loop"
  /\ failure = "none"
  /\ yielded = <<>>
  /\ rows = <<>>
  /\ first_stage = None /\ first_p1_char = None /\ first_p2_char = None
  /\ timestamp = None
  /\ df_combined = NoDF /\ df_p1 = NoDF /\ df_p2 = NoDF
  /\ base = None
  /\ wrote = <<>>
  /\ nwritten = [i \in 1..Len(files) |-> 0]

\* "if not file.lower().endswith(.slp): continue"
SkipFile ==
  /\ pc = "loop" /\ fi <= Len(files) /\ ~IsSlp(files[fi])
  /\ fi' = fi + 1
  /\ UNCHANGED <<files, pc, failure, yielded, replayVars, outVars>>

\* Console(...), console.connect(), rows = [], first_* = None.  The tables,
\* base and the record of the writes of the replay before are dead from
\* here on and are cleared.
Connect ==
  /\ pc = "loop" /\ fi <= Len(files) /\ IsSlp(files[fi])
  /\ pc' = "step"
  /\ yielded' = <<>>
  /\ rows' = <<>>
  /\ first_stage' = None /\ first_p1_char' = None /\ first_p2_char' = None
  /\ timestamp' = None
  /\ df_combined' = NoDF /\ df_p1' = NoDF /\ df_p2' = NoDF
  /\ base' = None /\ wrote' = <<>>
  /\ UNCHANGED <<files, fi, failure, nwritten>>

\* what console.step() may return next: a snapshot, numbered by the decoder
Yield == {[s EXCEPT !.frame = Len(yielded)] : s \in Snapshots}

\* console.step() raises
StepDecoderRaise ==
  /\ pc = "step"
  /\ pc' = "crashed" /\ failure' = "decoder"
  /\ UNCHANGED <<files, fi, yielded, replayVars, outVars>>

\* "if gs.menu_state != Menu.IN_GAME: continue"
StepSkip ==
  /\ pc = "step" /\ Len(yielded) < MaxSteps
  /\ \E gs \in Yield :
       /\ gs.menu_state # IN_GAME
       /\ yielded' = Append(yielded, gs)
  /\ UNCHANGED <<files, fi, pc, failure, replayVars, outVars>>

FirstStage(gs) ==
  IF first_stage = None
  THEN IF gs.stage # None THEN gs.stage ELSE "unknown_stage"
  ELSE first_stage

FirstTimestamp(gs) == IF first_stage = None THEN gs.startAt ELSE timestamp

\* "if idx == k-1 and first_pk_char is None: first_pk_char = ps.character.name",
\* reached when no player up to the k-th raised
FirstChar(cur, gs, k) ==
  IF /\ cur = None
     /\ Len(gs.players) >= k
     /\ \A i \in 1..k : gs.players[i].ps.character # None
     /\ \A i \in 1..(k - 1) : ~PlayerRaises(gs.players[i].ps)
  THEN gs.players[k].ps.character
  ELSE cur

\* an in-game snapshot: flatten, pre-seed, encode, rows.append(row)
StepRow ==
  /\ pc = "step" /\ Len(yielded) < MaxSteps
  /\ \E gs \in Yield :
       /\ gs.menu_state = IN_GAME
       /\ ~FlattenRaises(gs)
       /\ yielded' = Append(yielded, gs)
       /\ first_stage' = FirstStage(gs)
       /\ timestamp' = FirstTimestamp(gs)
       /\ first_p1_char' = FirstChar(first_p1_char, gs, 1)
       /\ first_p2_char' = FirstChar(first_p2_char, gs, 2)
       /\ rows' = Append(rows, Flatten(gs))
  /\ UNCHANGED <<files, fi, pc, failure, outVars>>

\* an in-game snapshot for which building the row raises: the exception is
\* caught nowhere and ends the program
StepFlattenRaise ==
  /\ pc = "step" /\ Len(yielded) < MaxSteps
  /\ \E gs \in Yield :
       /\ gs.menu_state = IN_GAME
       /\ FlattenRaises(gs)
       /\ yielded' = Append(yielded, gs)
       /\ first_stage' = FirstStage(gs)
       /\ timestamp' = FirstTimestamp(gs)
       /\ first_p1_char' = FirstChar(first_p1_char, gs, 1)
       /\ first_p2_char' = FirstChar(first_p2_char, gs, 2)
  /\ pc' = "crashed" /\ failure' = "flatten"
  /\ UNCHANGED <<files, fi, rows, outVars>>

\* "if gs is None: break", then the table, the perspectives, the file names
\* and the two writes
StepEnd ==
  /\ pc = "step"
  /\ \E uniq \in UUIDS :
     \E df \in {CastFloat32(DataFrame(rows))} :
       LET b == BaseName(first_stage, first_p1_char, first_p2_char, timestamp, uniq)
       IN  /\ df_combined' = df
           /\ df_p1' = perspective(df, "p1_", "p2_")
           /\ df_p2' = perspective(df, "p2_", "p1_")
           /\ base' = b
           /\ wrote' = <<[path |-> P1Path(b), df |-> "df_p1"],
                         [path |-> P2Path(b), df |-> "df_p2"]>>
  /\ nwritten' = [nwritten EXCEPT ![fi] = @ + 2]
  /\ fi' = fi + 1
  /\ pc' = "loop"
  /\ UNCHANGED <<files, failure, yielded, replayVars>>

\* the for loop is exhausted
Finish ==
  /\ pc = "loop" /\ fi > Len(files)
  /\ pc' = "done"
  /\ UNCHANGED <<files, fi, failure, yielded, replayVars, outVars>>

Next ==
  \/ SkipFile
  \/ Connect
  \/ StepDecoderRaise
  \/ StepSkip
  \/ StepRow
  \/ StepFlattenRaise
  \/ StepEnd
  \/ Finish

Spec == Init /\ [][Next]_vars

\* One replay: a directory holding a single replay file.
InitReplay == Init /\ files = <<".SLP">>

NextReplay ==
  \/ Connect
  \/ StepDecoderRaise
  \/ StepSkip
  \/ StepRow
  \/ StepFlattenRaise
  \/ StepEnd

SpecReplay == InitReplay /\ [][NextReplay]_vars

\* ================================================================== claims
InGameOnly(seq) == SelectSeq(seq, LAMBDA g : g.menu_state = IN_GAME)

\* the snapshot the i-th accumulated row was built from
Src(i) == InGameOnly(yielded)[i]

Written == wrote # <<>>

IsNumeric(v) == v[1] \in {"int", "float", "nan", "bool"}

Code(map, label) == IF label \in DOMAIN map THEN IntV(map[label]) ELSE IntV(-1)

PlayerKey(i, field) == <<"p" \o Digit(i) \o "_", field>>

\* C1: the rows of any two in-game snapshots with two participants each have
\* the same set of column names, nana present or not, whatever the number of
\* projectiles.
C1_SameKeySet ==
  \A i, j \in 1..Len(rows) :
    (Len(Src(i).players) = 2 /\ Len(Src(j).players) = 2)
      => DOMAIN rows[i] = DOMAIN rows[j]

\* the column names of the perspective tables of a replay of one plain
\* snapshot (no nana, no projectile)
ReferenceColumns ==
  perspective(CastFloat32(DataFrame(<<Flatten(Snapshot(IN_GAME, "FINAL_DESTINATION", FoxMarth, 0))>>)),
              "p1_", "p2_").columns

\* C2: the p1-perspective and the p2-perspective table of a replay have the
\* same set of column names, and that set is the same for every replay.
\* (Stated for replays with at least one in-game frame.)
C2_SameColumns ==
  (Written /\ Len(rows) > 0) =>
    /\ df_p1.columns = df_p2.columns
    /\ df_p1.columns = ReferenceColumns

ProjKeys == {Key(ProjPref(j), f) : j \in 0..(MAX_PROJ - 1), f \in PROJ_FIELDS}

IsProjKey(k) == \E j \in 0..9 : k[1] = "proj" \o Digit(j) \o "_"

SlotIsReal(row, j, proj) ==
  /\ row[Key(ProjPref(j), "frame")] = IntV(proj.frame)
  /\ row[Key(ProjPref(j), "owner")] = IntV(proj.owner)
  /\ row[Key(ProjPref(j), "subtype")] = IntV(proj.subtype)
  /\ row[Key(ProjPref(j), "pos_x")] = FloatV(proj.pos)
  /\ row[Key(ProjPref(j), "pos_y")] = FloatV(proj.pos)
  /\ row[Key(ProjPref(j), "speed_x")] = FloatV(proj.speed)
  /\ row[Key(ProjPref(j), "speed_y")] = FloatV(proj.speed)
  /\ row[Key(ProjPref(j), "type")] = Code(PROJECTILE_TYPE_MAP, proj.type)

SlotIsPlaceholder(row, j) ==
  /\ \A f \in {"frame", "owner", "subtype", "type"} : row[Key(ProjPref(j), f)] = IntV(-1)
  /\ \A f \in {"pos_x", "pos_y", "speed_x", "speed_y"} : row[Key(ProjPref(j), f)] = NaN

\* C3: in the finished row of a snapshot with n projectiles, slot j < n holds
\* the j-th projectile (its type as the table code), slot j >= n holds the
\* placeholder set (-1, -1, -1, four NaN, type -1); a projectile at index
\* >= MAX_PROJ is in no column, and its snapshot still gets its row.
C3_ProjectileSlots ==
  /\ \A i \in 1..Len(rows) :
       /\ \A j \in 0..(MAX_PROJ - 1) :
            IF j < Len(Src(i).projectiles)
            THEN SlotIsReal(rows[i], j, Src(i).projectiles[j + 1])
            ELSE SlotIsPlaceholder(rows[i], j)
       /\ {k \in DOMAIN rows[i] : IsProjKey(k)} = ProjKeys
  /\ \A k \in 1..Len(InGameOnly(yielded)) :
       (Len(InGameOnly(yielded)[k].projectiles) > MAX_PROJ) => k <= Len(rows)

C3_Witness ==
  \E i, j \in 1..Len(rows) :
    /\ Len(Src(i).projectiles) > MAX_PROJ
    /\ Len(Src(j).projectiles) > 0 /\ Len(Src(j).projectiles) < MAX_PROJ

\* C4: an in-game snapshot whose stage is null, or in which a participant's
\* character is null or not in the table, gets its row, with -1 in the stage
\* or character column.
C4_NullLabels ==
  \A k \in 1..Len(InGameOnly(yielded)) :
    LET gs == InGameOnly(yielded)[k]
        odd(i) == gs.players[i].ps.character = None
                  \/ gs.players[i].ps.character \notin DOMAIN CHARACTER_MAP
    IN  (gs.stage = None \/ \E i \in 1..Len(gs.players) : odd(i)) =>
          /\ k <= Len(rows)
          /\ gs.stage = None => rows[k][<<"stage">>] = IntV(-1)
          /\ \A i \in 1..Len(gs.players) :
               odd(i) => rows[k][PlayerKey(i, "character")] = IntV(-1)

\* C5: when the decoder raises in a replay, no table is written for that
\* replay and every other replay of the batch still gets its two tables.
C5_FailureConfined ==
  (pc \in {"done", "crashed"} /\ failure # "flatten") =>
    \A i \in 1..Len(files) :
      IsSlp(files[i]) =>
        IF pc = "crashed" /\ i = fi THEN nwritten[i] = 0 ELSE nwritten[i] = 2

\* C6: a replay processed to the end writes exactly two files,
\* <base>-p1.parquet holding the p1 table and <base>-p2.parquet the p2 table,
\* <base> = <stage>_<p1>_vs_<p2>_<timestamp>_<uuid>.
C6_TwoFiles ==
  Written =>
    /\ Len(wrote) = 2
    /\ \E u \in UUIDS :
         base = BaseName(first_stage, first_p1_char, first_p2_char, timestamp, u)
    /\ wrote[1] = [path |-> base \o "-p1.parquet", df |-> "df_p1"]
    /\ wrote[2] = [path |-> base \o "-p2.parquet", df |-> "df_p2"]

SwapSelfOpp(n) ==
  IF StartsWith(n, "self_") THEN <<"opp_">> \o Tail(n)
  ELSE IF StartsWith(n, "opp_") THEN <<"self_">> \o Tail(n)
  ELSE n

\* C7: exchanging self_ and opp_ in the column names of the p1 table gives
\* the p2 table, name for name and value for value in every row; a column
\* with neither the p1_ nor the p2_ prefix has its name and values in both.
C7_RoundTrip ==
  Written =>
    /\ {SwapSelfOpp(n) : n \in df_p1.columns} = df_p2.columns
    /\ Len(df_p1.data) = Len(rows) /\ Len(df_p2.data) = Len(rows)
    /\ \A i \in 1..Len(rows) : \A n \in df_p1.columns :
         df_p1.data[i][n] = df_p2.data[i][SwapSelfOpp(n)]
    /\ \A c \in df_combined.columns :
         (~StartsWith(c, "p1_") /\ ~StartsWith(c, "p2_")) =>
           /\ c \in df_p1.columns /\ c \in df_p2.columns
           /\ \A i \in 1..Len(rows) :
                /\ df_p1.data[i][c] = df_combined.data[i][c]
                /\ df_p2.data[i][c] = df_combined.data[i][c]

C7_Witness ==
  /\ Written /\ Len(rows) > 1
  /\ <<"self_", "nana_", "costume">> \in df_p1.columns
  /\ <<"proj0_", "type">> \in df_p1.columns
  /\ \E i \in 1..Len(rows) : df_p1.data[i][<<"self_", "port">>] # df_p1.data[i][<<"opp_", "port">>]

\* C8: in every row of a replay the p1_ columns hold the participant that
\* came first in the first in-game snapshot, and the p2_ columns the second.
C8_FixedAssignment ==
  \A i \in 1..Len(rows) :
    /\ rows[i][<<"p1_", "port">>] = IntV(Src(1).players[1].port)
    /\ rows[i][<<"p2_", "port">>] = IntV(Src(1).players[2].port)

\* C9: the accumulated rows are the rows of the in-game snapshots yielded so
\* far, one each, in the order yielded.
C9_RowsFollowSnapshots ==
  /\ Len(rows) = Len(InGameOnly(yielded))
  /\ \A i \in 1..Len(rows) : rows[i] = Flatten(Src(i))

CategoricalKeys ==
  {<<"stage">>}
  \cup {Key(p, f) : p \in {<<"p1_">>, <<"p2_">>, <<"p1_", "nana_">>, <<"p2_", "nana_">>},
                    f \in {"character", "action"}}
  \cup {Key(ProjPref(j), "type") : j \in 0..(MAX_PROJ - 1)}

\* C10: after encode_row no column of a row holds a string: every value is
\* an integer, a float or a boolean, and every categorical column an integer.
C10_NoStrings ==
  \A i \in 1..Len(rows) :
    /\ \A k \in DOMAIN rows[i] : IsNumeric(rows[i][k])
    /\ \A k \in CategoricalKeys : k \in DOMAIN rows[i] /\ rows[i][k][1] = "int"

====
